---- MODULE Spec2Model ----
(***************************************************************************)
(* valtio-select: subscribeTracked (src/unnamed/part_000) over a Valtio    *)
(* store.  One engine = one call of subscribeTracked(proxy, getter,        *)
(* callback).  The store (proxy objects, subscribeKey, the microtask queue *)
(* that delivers its notifications) is the external collaborator the       *)
(* engine is built on (valtio, valtio/utils).                              *)
(*                                                                         *)
(* Every value held in the graph is a string: scalars "0","1",.., the      *)
(* object identities "U1","U2","R1", and "null".                           *)
(***************************************************************************)
EXTENDS Integers, Sequences, FiniteSets, TLC

\* ------------------------------------------------------------------ bounds
\* Number of mutations the environment performs in one behaviour.
MaxMutations == 4
\* Listener slots of the store (live listeners plus cancelled ones whose
\* microtask is still queued).
MaxSubs == 7

\* ------------------------------------------------------------------- graph
Null == "null"
Undefined == "undefined"
Root == "state"
Children == {"U1", "U2"}
\* An object held by the graph that is no proxy of the store (ref(...)).
NonProxies == {"R1"}
\* Objects held by the property profile of a child.
Profiles == {"P1", "P2"}
Proxies == {Root} \cup Children \cup Profiles
Objects == Proxies \cup NonProxies
SubIds == 1..MaxSubs

Range(s) == {s[i] : i \in 1..Len(s)}

\* The getters (selectors) an engine is started with.
\*   count      (s) => s.count
\*   cond       (s) => s.mode === "a" ? s.a : s.b
\*   userOpt    (s) => s.user?.name
\*   userStrict (s) => s.user.name
\*   ident      (s) => s.user === s.alt ? s.a : s.b
\*   const      () => 42
\*   cycle      (s) => s.self.self.value
\*   chain      (s) => s.user.profile.name
\* and, started in specifications of their own,
\*   name       (s) => s.name
\*   ref        (s) => s.mode === "a" ? s.a : s.el.x
Getters == {"count", "cond", "userOpt", "userStrict", "ident", "const", "cycle"}

\* proxy({...}) as the caller builds it before subscribeTracked; state.self
\* is the proxy itself.
InitHeap ==
  [o \in Objects |->
     IF o = Root
     THEN [count |-> "0", name |-> "x", mode |-> "a", a |-> "0", b |-> "0",
           user |-> "U1", alt |-> "U2", el |-> "R1", value |-> "1", self |-> Root]
     ELSE IF o = "U1" THEN [name |-> "A", profile |-> "P1"]
     ELSE IF o = "U2" THEN [name |-> "A", profile |-> "P2"]
     ELSE IF o \in Profiles THEN [name |-> "A"]
     ELSE [x |-> "1"]]

\* The assignments the caller performs on the graph, per getter scenario:
\* <<object, key, values>>.
Assignable(g) ==
  CASE g \in {"count", "const"} ->
                      {<<Root, "count", {"0", "1", "2"}>>, <<Root, "name", {"x", "y"}>>}
    [] g = "chain" -> {<<Root, "user", Children>>, <<"U1", "profile", Profiles>>,
                       <<"P1", "name", {"A", "B"}>>, <<"P2", "name", {"A", "B"}>>}
    [] g = "cycle" -> {<<Root, "value", {"1", "2"}>>, <<Root, "count", {"0", "1"}>>}
    [] g = "computed" ->
                      {<<Root, "value", {"0", "1", "2"}>>, <<Root, "count", {"0", "1"}>>}
    [] g = "cond"  -> {<<Root, "mode", {"a", "b"}>>, <<Root, "a", {"0", "1"}>>,
                       <<Root, "b", {"0", "1"}>>}
    [] g = "ref"   -> {<<Root, "mode", {"a", "b"}>>, <<Root, "a", {"0", "1"}>>}
    [] g = "ident" -> {<<Root, "alt", Children \cup {Null}>>,
                       <<Root, "a", {"0", "1"}>>, <<Root, "b", {"0", "1"}>>}
    [] g = "paths" -> {<<Root, "user", Children>>, <<Root, "alt", Children>>,
                       <<"U1", "name", {"A", "B"}>>, <<"U2", "name", {"A", "B"}>>}
    [] g = "kept"  -> {<<Root, "count", {"0", "1", "2"}>>,
                       <<Root, "user", Children \cup {Null}>>}
    [] g = "el"    -> {<<Root, "el", {"R1", Null}>>, <<Root, "count", {"0", "1"}>>}
    [] OTHER       -> {<<Root, "user", Children \cup {Null}>>,
                       <<"U1", "name", {"A", "B"}>>, <<"U2", "name", {"A", "B"}>>}

\* Objects currently held by a property of the root.
Attached(h) == {h[Root].user, h[Root].alt} \cap Children

\* The proxies that hold one of the objects os in a property.
Holders(h, os) == {p \in Proxies : \E k \in DOMAIN h[p] : h[p][k] \in os}

\* The objects whose listeners the store notifies of an assignment to a key
\* of o: o and the proxies that hold it, directly or through other proxies
\* (the graph is at most three objects deep).
Held(h, os) == os \cup Holders(h, os)
Notified(h, o) == Held(h, Held(h, Held(h, {o})))

\* ------------------------------------------------------- access recording
\* onAccess: Map<object, Set<key>>, iterated object by object in insertion
\* order; modelled as the sequence of pairs in that iteration order.
\* Variant of onAccess that records every read, repeated or not.
onAccess_append(acc, obj, key) == Append(acc, <<obj, key>>)

onAccess(acc, obj, key) ==
  IF \E i \in 1..Len(acc) : acc[i] = <<obj, key>> THEN acc
  ELSE IF \E i \in 1..Len(acc) : acc[i][1] = obj
       THEN LET last == CHOOSE i \in 1..Len(acc) :
                          /\ acc[i][1] = obj
                          /\ \A j \in 1..Len(acc) : acc[j][1] = obj => j <= i
            IN SubSeq(acc, 1, last) \o <<<<obj, key>>>> \o SubSeq(acc, last + 1, Len(acc))
       ELSE Append(acc, <<obj, key>>)

\* get computed() { return this._value * 2 }, on the value v of the field.
Twice(v) == CASE v = "0" -> "0" [] v = "1" -> "2" [] v = "2" -> "4"

\* Variant of Get whose computed property is evaluated once, at construction.
Get_frozen(h, obj, prop) == IF prop = "computed" THEN "2" ELSE h[obj][prop]

\* obj[prop] on an object of the graph: a stored field, or the getter
\* property computed, which runs with this = obj (the proxy itself).
Get(h, obj, prop) == IF prop = "computed" THEN Twice(h[obj].value) ELSE h[obj][prop]

\* A value as the getter holds it: v is the underlying value, w the identity
\* of the tracking Proxy around it (0: the value itself, not wrapped).
Raw(value) == [v |-> value, w |-> 0]

\* Variant of createTracker that never wraps the value it returns.
createTracker_shallow(isTr, acc, h, obj, prop, n) ==
  [acc |-> IF isTr THEN onAccess(acc, obj, prop) ELSE acc, val |-> Raw(h[obj][prop])]

\* Variant of createTracker whose get trap evaluates a getter property with
\* this = the tracking Proxy, so that the getter's own read is recorded.
createTracker_receiver(isTr, acc, h, obj, prop, n) ==
  LET value == Get(h, obj, prop) IN
  [acc |-> IF ~isTr THEN acc
           ELSE IF prop = "computed" THEN onAccess(onAccess(acc, obj, prop), obj, "value")
           ELSE onAccess(acc, obj, prop),
   val |-> IF isTr /\ value \in Objects THEN [v |-> value, w |-> n + 1] ELSE Raw(value)]

\* createTracker's get trap on the Proxy around obj.  n numbers the read:
\* every read of an object value returns a new Proxy.
createTracker(isTr, acc, h, obj, prop, n) ==
  LET value == Get(h, obj, prop) IN
  [acc |-> IF isTr THEN onAccess(acc, obj, prop) ELSE acc,
   val |-> IF isTr /\ value \in Objects THEN [v |-> value, w |-> n + 1] ELSE Raw(value)]

\* x[prop] in the getter's body.  A read on a tracking Proxy goes through the
\* get trap; a read on a plain value does not.  When the getter runs on the
\* live proxy (mode "live") acc lists the reads it performs.
ReadProp(mode, isTr, acc, h, x, prop, n) ==
  IF x.w # 0 THEN createTracker(isTr, acc, h, x.v, prop, n)
  ELSE [acc |-> IF mode = "live" THEN onAccess(acc, x.v, prop) ELSE acc,
        val |-> Raw(Get(h, x.v, prop))]

\* The root handed to the getter: the tracking Proxy, or the proxy itself.
RootOf(mode) == IF mode = "tracked" THEN [v |-> Root, w |-> 1] ELSE Raw(Root)

\* What a run of the getter yields: the reads (acc), the value returned
\* (res), or the exception (threw).
Done(r) == [acc |-> r.acc, res |-> r.val.v, threw |-> FALSE]
DoneUndefined(r) == [acc |-> r.acc, res |-> Undefined, threw |-> FALSE]
Throw(r) == [acc |-> r.acc, res |-> Undefined, threw |-> TRUE]

\* (s) => s.count
getCount(mode, isTr, h) ==
  Done(ReadProp(mode, isTr, <<>>, h, RootOf(mode), "count", 1))

\* () => 42
getConst(mode, isTr, h) == [acc |-> <<>>, res |-> "42", threw |-> FALSE]

\* (s) => s.self.self.value               (r1, r2: the reads of self)
getCycleValue(mode, isTr, h, r2) == Done(ReadProp(mode, isTr, r2.acc, h, r2.val, "value", 3))

getCycleSelf(mode, isTr, h, r1) ==
  getCycleValue(mode, isTr, h, ReadProp(mode, isTr, r1.acc, h, r1.val, "self", 2))

getCycle(mode, isTr, h) ==
  getCycleSelf(mode, isTr, h, ReadProp(mode, isTr, <<>>, h, RootOf(mode), "self", 1))

\* (s) => s.user
getUser(mode, isTr, h) == Done(ReadProp(mode, isTr, <<>>, h, RootOf(mode), "user", 1))

\* (s) => s.el
getEl(mode, isTr, h) == Done(ReadProp(mode, isTr, <<>>, h, RootOf(mode), "el", 1))

\* (s) => s.computed
getComputed(mode, isTr, h) == Done(ReadProp(mode, isTr, <<>>, h, RootOf(mode), "computed", 1))

\* (s) => s.user.profile.name             (r1, r2: the reads of user, profile)
getChainName(mode, isTr, h, r2) == Done(ReadProp(mode, isTr, r2.acc, h, r2.val, "name", 3))

getChainProfile(mode, isTr, h, r1) ==
  getChainName(mode, isTr, h, ReadProp(mode, isTr, r1.acc, h, r1.val, "profile", 2))

getChain(mode, isTr, h) ==
  getChainProfile(mode, isTr, h, ReadProp(mode, isTr, <<>>, h, RootOf(mode), "user", 1))

\* (s) => s.name
getName(mode, isTr, h) ==
  Done(ReadProp(mode, isTr, <<>>, h, RootOf(mode), "name", 1))

\* (s) => s.mode === "a" ? s.a : s.b      (r1: the read of s.mode)
getCondBranch(mode, isTr, h, r1) ==
  IF r1.val = Raw("a")
  THEN Done(ReadProp(mode, isTr, r1.acc, h, RootOf(mode), "a", 2))
  ELSE Done(ReadProp(mode, isTr, r1.acc, h, RootOf(mode), "b", 2))

getCond(mode, isTr, h) ==
  getCondBranch(mode, isTr, h, ReadProp(mode, isTr, <<>>, h, RootOf(mode), "mode", 1))

\* (s) => s.mode === "a" ? s.a : s.el.x   (r1: the read of s.mode, r2: of s.el)
getRefX(mode, isTr, h, r2) == Done(ReadProp(mode, isTr, r2.acc, h, r2.val, "x", 3))

getRefBranch(mode, isTr, h, r1) ==
  IF r1.val = Raw("a")
  THEN Done(ReadProp(mode, isTr, r1.acc, h, RootOf(mode), "a", 2))
  ELSE getRefX(mode, isTr, h, ReadProp(mode, isTr, r1.acc, h, RootOf(mode), "el", 2))

getRef(mode, isTr, h) ==
  getRefBranch(mode, isTr, h, ReadProp(mode, isTr, <<>>, h, RootOf(mode), "mode", 1))

\* (s) => s.user?.name                    (r1: the read of s.user)
getUserOptName(mode, isTr, h, r1) ==
  IF r1.val.v = Null THEN DoneUndefined(r1)
  ELSE Done(ReadProp(mode, isTr, r1.acc, h, r1.val, "name", 2))

getUserOpt(mode, isTr, h) ==
  getUserOptName(mode, isTr, h, ReadProp(mode, isTr, <<>>, h, RootOf(mode), "user", 1))

\* (s) => s.user.name: reading name of null throws a TypeError.
getUserStrictName(mode, isTr, h, r1) ==
  IF r1.val.v = Null THEN Throw(r1)
  ELSE Done(ReadProp(mode, isTr, r1.acc, h, r1.val, "name", 2))

getUserStrict(mode, isTr, h) ==
  getUserStrictName(mode, isTr, h, ReadProp(mode, isTr, <<>>, h, RootOf(mode), "user", 1))

\* (s) => s.user === s.alt ? s.a : s.b    (=== compares value and Proxy
\* identity; r1, r2: the reads of s.user and s.alt)
getIdentBranch(mode, isTr, h, r1, r2) ==
  IF r1.val = r2.val
  THEN Done(ReadProp(mode, isTr, r2.acc, h, RootOf(mode), "a", 3))
  ELSE Done(ReadProp(mode, isTr, r2.acc, h, RootOf(mode), "b", 3))

getIdentAlt(mode, isTr, h, r1) ==
  getIdentBranch(mode, isTr, h, r1, ReadProp(mode, isTr, r1.acc, h, RootOf(mode), "alt", 2))

getIdent(mode, isTr, h) ==
  getIdentAlt(mode, isTr, h, ReadProp(mode, isTr, <<>>, h, RootOf(mode), "user", 1))

\* (s) => s.user.name + s.alt.name + s.user.name
\* (r2, r4: the reads of name through user and through alt)
getPathsSum(mode, isTr, h, r2, r4, r6) ==
  [acc |-> r6.acc, res |-> r2.val.v \o r4.val.v \o r6.val.v, threw |-> FALSE]

getPathsName3(mode, isTr, h, r2, r4, r5) ==
  getPathsSum(mode, isTr, h, r2, r4, ReadProp(mode, isTr, r5.acc, h, r5.val, "name", 6))

getPathsUser2(mode, isTr, h, r2, r4) ==
  getPathsName3(mode, isTr, h, r2, r4,
                ReadProp(mode, isTr, r4.acc, h, RootOf(mode), "user", 5))

getPathsName2(mode, isTr, h, r2, r3) ==
  getPathsUser2(mode, isTr, h, r2, ReadProp(mode, isTr, r3.acc, h, r3.val, "name", 4))

getPathsAlt(mode, isTr, h, r2) ==
  getPathsName2(mode, isTr, h, r2, ReadProp(mode, isTr, r2.acc, h, RootOf(mode), "alt", 3))

getPathsName1(mode, isTr, h, r1) ==
  getPathsAlt(mode, isTr, h, ReadProp(mode, isTr, r1.acc, h, r1.val, "name", 2))

getPaths(mode, isTr, h) ==
  getPathsName1(mode, isTr, h, ReadProp(mode, isTr, <<>>, h, RootOf(mode), "user", 1))

\* getter(root): the getter the engine was started with.
getter(g, h, mode, isTr) ==
  CASE g = "count" -> getCount(mode, isTr, h)
    [] g = "name" -> getName(mode, isTr, h)
    [] g = "ref" -> getRef(mode, isTr, h)
    [] g = "const" -> getConst(mode, isTr, h)
    [] g = "cycle" -> getCycle(mode, isTr, h)
    [] g = "chain" -> getChain(mode, isTr, h)
    [] g = "computed" -> getComputed(mode, isTr, h)
    [] g = "user" -> getUser(mode, isTr, h)
    [] g = "paths" -> getPaths(mode, isTr, h)
    [] g = "kept" -> getCount(mode, isTr, h)
    [] g = "el" -> getEl(mode, isTr, h)
    [] g = "cond" -> getCond(mode, isTr, h)
    [] g = "userOpt" -> getUserOpt(mode, isTr, h)
    [] g = "userStrict" -> getUserStrict(mode, isTr, h)
    [] g = "ident" -> getIdent(mode, isTr, h)

\* Variant of trackAccesses that records state.count whatever the getter reads.
trackAccesses_rootCount(g, h) ==
  [getter(g, h, "tracked", TRUE) EXCEPT !.acc = onAccess(@, Root, "count")]

\* trackAccesses: isTracking.current = true; getter(tracked); finally
\* isTracking.current = false.  Yields the access map (and whether the getter
\* threw).
trackAccesses(g, h) == getter(g, h, "tracked", TRUE)

\* getSnapshot(proxy): the getter on the live proxy, as the consumer reads it.
getSnapshot(g, h) == getter(g, h, "live", FALSE)

\* ------------------------------------------------------------- the store
NoSub == [obj |-> Root, key |-> "", prev |-> "", gen |-> 0]

\* ------------------------------------------------ the hook's return value
\* noopProxy = proxy({}); isValtioProxy(obj): the store knows obj as a proxy.
noopProxy == "noop"
isValtioProxy(obj) == obj \in Proxies \cup {noopProxy}

\* The fields of the proxy p as they are in h, written out (a proxy held by
\* p appears by its identity).
Frozen(h, p) ==
  CASE p \in Children -> "{name:" \o h[p].name \o ",profile:" \o h[p].profile \o "}"
    [] p \in Profiles -> "{name:" \o h[p].name \o "}"
    [] p = Root -> "{count:" \o h[p].count \o ",name:" \o h[p].name
                     \o ",mode:" \o h[p].mode \o ",a:" \o h[p].a \o ",b:" \o h[p].b
                     \o ",user:" \o h[p].user \o ",alt:" \o h[p].alt
                     \o ",value:" \o h[p].value \o "}"
    [] OTHER -> "{}"

\* useSnapshot(p): the immutable copy of the proxy p as it is in h, an
\* object other than p.
useSnapshot(h, p) == "snapshot(" \o p \o ")" \o Frozen(h, p)

\* Variant of the hook's return that is the snapshot in every case.
useTrackedSnapshot_alwaysSnapshot(value, h) ==
  useSnapshot(h, IF isValtioProxy(value) THEN value ELSE noopProxy)

\* What useTrackedSnapshot returns when useSyncExternalStore gave it value:
\* snapshot = useSnapshot(isValtioProxy(value) ? value : noopProxy);
\* return isValtioProxy(value) ? snapshot : value.
useTrackedSnapshot(value, h) ==
  IF isValtioProxy(value)
  THEN useSnapshot(h, IF isValtioProxy(value) THEN value ELSE noopProxy)
  ELSE value

\* Slots that hold neither a live listener nor a queued microtask.
FreeSlots(lst, q) == {i \in SubIds : i \notin Range(lst) /\ i \notin Range(q)}

\* subscribeKey(obj, key, cb): remembers the current value, adds a listener.
\* For the properties the listener is stamped with gen, the number of the
\* tracking pass after which it is opened.
\* e is the record of engine and store fields.
subscribeKey(e, h, q, obj, key) ==
  LET free == FreeSlots(e.listeners, q)
      slot == CHOOSE i \in free : \A j \in free : i <= j
  IN [e EXCEPT !.subs[slot] = [obj |-> obj, key |-> key, prev |-> Get(h, obj, key),
                               gen |-> e.passes],
               !.listeners = Append(@, slot),
               !.unsubs = Append(@, slot)]

\* Variant of cleanup that leaves the last handle uncalled.
cleanup_skipLast(e) ==
  [e EXCEPT !.listeners = SelectSeq(@, LAMBDA s :
                 \A i \in 1..(Len(e.unsubs) - 1) : e.unsubs[i] # s),
            !.unsubs = <<>>]

\* Variant of cleanup that cancels every listener of the store.
cleanup_everyListener(e) == [e EXCEPT !.listeners = <<>>, !.unsubs = <<>>]

\* Variant of cleanup that calls the handles and keeps them in the array.
cleanup_keepHandles(e) ==
  [e EXCEPT !.listeners = SelectSeq(@, LAMBDA s : s \notin Range(e.unsubs))]

\* Variant of cleanup that empties the array without calling the handles.
cleanup_noUnsub(e) == [e EXCEPT !.unsubs = <<>>]

\* cleanup: unsubs.forEach(unsub => unsub()); unsubs.length = 0.
cleanup(e) ==
  [e EXCEPT !.listeners = SelectSeq(@, LAMBDA s : s \notin Range(e.unsubs)),
            !.unsubs = <<>>]

RECURSIVE openAll(_, _, _, _, _)
\* accesses.forEach((keys, obj) => keys.forEach(key => unsubs.push(subscribeKey(...))))
\* subscribeKey throws for an object that is no proxy of the store: the
\* exception leaves the loops, the handles pushed so far stay in the array.
openAll(e, h, q, acc, i) ==
  IF i > Len(acc) THEN e
  ELSE IF acc[i][1] \in NonProxies THEN [e EXCEPT !.threw = TRUE]
       ELSE openAll(subscribeKey(e, h, q, acc[i][1], acc[i][2]), h, q, acc, i + 1)

\* Variant of subscribeAll that subscribes to the pairs read before a throw.
subscribeAll_afterThrow(c, t, h, q) ==
  openAll([c EXCEPT !.isTracking = FALSE, !.accesses = t.acc, !.threw = t.threw,
                    !.passes = @ + 1], h, q, t.acc, 1)

\* Variant of subscribeAll without the finally clause: a pass the getter
\* leaves by an exception leaves isTracking set.
subscribeAll_noFinally(c, t, h, q) ==
  IF t.threw
  THEN [c EXCEPT !.isTracking = TRUE, !.accesses = t.acc, !.threw = TRUE,
                 !.passes = @ + 1]
  ELSE openAll([c EXCEPT !.isTracking = FALSE, !.accesses = t.acc, !.threw = FALSE,
                         !.passes = @ + 1, !.stale = Children \ Attached(h)],
               h, q, t.acc, 1)

\* The rest of setupSubscriptions once the pass t has run on the cleaned-up
\* engine c: the finally clause has reset isTracking; if the getter threw
\* the exception leaves here, else every pair is subscribed.
\* Bookkeeping for the properties: passes counts the tracking passes, threw
\* tells that the latest one ended by the exception, stale is the set of
\* objects no property of the root held when the latest completed pass ran.
subscribeAll(c, t, h, q) ==
  IF t.threw
  THEN [c EXCEPT !.isTracking = FALSE, !.accesses = t.acc, !.threw = TRUE,
                 !.passes = @ + 1]
  ELSE openAll([c EXCEPT !.isTracking = FALSE, !.accesses = t.acc, !.threw = FALSE,
                         !.passes = @ + 1, !.stale = Children \ Attached(h)],
               h, q, t.acc, 1)

\* Bookkeeping for the properties: c is the engine e once cleanup() has
\* returned, the state in which the tracking pass runs; trackOpen is the
\* number of listeners of e still open in it.
duringPass(c, e) ==
  [c EXCEPT !.trackOpen = Cardinality(Range(c.listeners) \cap Range(e.unsubs))]

\* Variant of setupSubscriptions that runs the tracking pass before cleanup().
setupSubscriptions_trackFirst(e, g, h, q) ==
  subscribeAll([cleanup(e) EXCEPT !.trackOpen =
                    Cardinality(Range(e.listeners) \cap Range(e.unsubs))],
               trackAccesses(g, h), h, q)

\* setupSubscriptions: cleanup(); trackAccesses(); subscribe to each pair.
setupSubscriptions(e, g, h, q) ==
  subscribeAll(duringPass(cleanup(e), e), trackAccesses(g, h), h, q)

\* The consumer's callback: counts the call, re-reads the getter on the live
\* proxy, and (for the record) notes the pairs with an open listener at that
\* instant.  rendered is what a component that is this consumer through
\* useTrackedSnapshot gets from the hook in the render the callback causes.
callback(e, g, h) ==
  [e EXCEPT !.calls = @ + 1,
            !.seen = getSnapshot(g, h).res,
            !.rendered = useTrackedSnapshot(getSnapshot(g, h).res, h),
            !.cbOpen = {<<e.subs[s].obj, e.subs[s].key>> : s \in Range(e.listeners)}]

\* Variant of thenCallback in which the listener catches the exception of
\* the rebuild and notifies all the same.
thenCallback_always(r, g, h) == callback(r, g, h)

\* callback() after setupSubscriptions() returned r; not reached if it threw.
thenCallback(r, g, h) == IF r.threw THEN r ELSE callback(r, g, h)

\* Variant of the listener that notifies before it rebuilds.
listener_callbackFirst(e, g, h, q) == setupSubscriptions(callback(e, g, h), g, h, q)

\* Variant of the listener that notifies without rebuilding.
listener_noRebuild(e, g, h, q) == callback(e, g, h)

\* Variant of the listener that notifies twice.
listener_twice(e, g, h, q) ==
  thenCallback(thenCallback(setupSubscriptions(e, g, h, q), g, h), g, h)

\* Variant of the listener that notifies only if the getter's value is not
\* the one the consumer holds.
listener_diffResult(e, g, h, q) ==
  IF getSnapshot(g, h).res = e.seen THEN setupSubscriptions(e, g, h, q)
  ELSE thenCallback(setupSubscriptions(e, g, h, q), g, h)

\* The listener handed to subscribeKey: setupSubscriptions(); callback().
listener(e, g, h, q) == thenCallback(setupSubscriptions(e, g, h, q), g, h)

\* ------------------------------------------------------------------ state
VARIABLES
  g,           \* the getter the engine is started with
  heap,        \* the proxy graph: object -> key -> value
  status,      \* "idle" (subscribeTracked not called), "active", "torndown",
               \* "failed" (subscribeTracked threw)
  unsubs,      \* the engine's array of unsubscribe handles
  isTracking,  \* isTracking.current
  accesses,    \* the access map of the latest tracking pass
  listeners,   \* store: live listeners, in subscription order
  subs,        \* store: slot -> [obj, key, prev] of a subscribeKey call
  queue,       \* store: microtasks queued to deliver a notification
  calls,       \* number of callback invocations
  seen,        \* value the consumer read at start or at the latest callback
  cbOpen,      \* pairs with an open listener when the latest callback ran
  threw,       \* the latest setupSubscriptions threw (the getter in its
               \* tracking pass, or subscribeKey)
  passes,      \* number of tracking passes
  stale,       \* objects detached when the latest completed pass ran
  fired,       \* pair of the listener whose delivery last ran the handler
  nmut,        \* number of assignments performed
  tmuts,       \* ... of those, on a pair with an open listener of the engine
  umuts,       \* ... and on a pair without one, the engine being active
  lastMut,     \* the pair of the latest assignment
  nthrows,     \* change-triggered rebuilds in which the getter threw
  batched,     \* an assignment was made while a notification was queued
  cancelled,   \* handles invoked by the latest call of the teardown handle
  engine2,     \* a second subscribeTracked call on the same proxy: its status
               \* and the fields of its own closure
  called,    \* the callback has been invoked since the latest assignment
  rendered,    \* what useTrackedSnapshot returned in the consumer's latest render
  trackOpen,   \* listeners of the engine open while its latest tracking pass ran
  kept         \* a getter that keeps the wrapper of its first pass: the Map of
               \* that pass as it stands, and what the latest read through
               \* the wrapper returned, inside a pass and outside one

vars == <<g, heap, status, unsubs, isTracking, accesses, listeners, subs, queue,
          calls, seen, cbOpen, threw, passes, stale, fired, nmut, tmuts,
          umuts, lastMut, nthrows, batched, cancelled, engine2, called, rendered,
          trackOpen, kept>>

\* The fields the engine's functions work on, as one record.
E == [unsubs |-> unsubs, isTracking |-> isTracking, accesses |-> accesses,
      listeners |-> listeners, subs |-> subs, calls |-> calls, seen |-> seen,
      cbOpen |-> cbOpen, threw |-> threw, passes |-> passes, stale |-> stale,
      rendered |-> rendered, trackOpen |-> trackOpen]

\* Store the record r back; slots without listener and microtask are blank.
Put(r, q) ==
  /\ unsubs' = r.unsubs
  /\ isTracking' = r.isTracking
  /\ accesses' = r.accesses
  /\ listeners' = r.listeners
  /\ subs' = [i \in SubIds |->
               IF i \in Range(r.listeners) \cup Range(q) THEN r.subs[i] ELSE NoSub]
  /\ calls' = r.calls
  /\ seen' = r.seen
  /\ cbOpen' = r.cbOpen
  /\ rendered' = r.rendered
  /\ trackOpen' = r.trackOpen
  /\ threw' = r.threw
  /\ passes' = r.passes
  /\ stale' = r.stale

PairOf(s) == <<subs[s].obj, subs[s].key>>
Pairs(lst) == {PairOf(s) : s \in Range(lst)}
NoPair == <<"", "">>

\* The state before subscribeTracked is called, whatever the getter.
InitState ==
  /\ heap = InitHeap
  /\ status = "idle"
  /\ unsubs = <<>>
  /\ isTracking = TRUE
  /\ accesses = <<>>
  /\ listeners = <<>>
  /\ subs = [i \in SubIds |-> NoSub]
  /\ queue = <<>>
  /\ calls = 0
  /\ seen = Undefined
  /\ cbOpen = {}
  /\ rendered = Undefined
  /\ trackOpen = 0
  /\ threw = FALSE
  /\ passes = 0
  /\ stale = {}
  /\ fired = NoPair
  /\ nmut = 0
  /\ tmuts = 0
  /\ umuts = 0
  /\ lastMut = NoPair
  /\ nthrows = 0
  /\ batched = FALSE
  /\ cancelled = 0
  /\ engine2 = [status |-> "idle", unsubs |-> <<>>, isTracking |-> TRUE,
                accesses |-> <<>>, calls |-> 0, seen |-> Undefined, cbOpen |-> {},
                threw |-> FALSE, passes |-> 0, stale |-> {}, rendered |-> Undefined,
                trackOpen |-> 0]
  /\ called = FALSE
  /\ kept = [has |-> FALSE, acc |-> <<>>, inPass |-> Raw(Undefined),
             outside |-> Raw(Undefined)]

Init == g \in Getters /\ InitState

\* ---------------------------------------------------------------- actions
\* Variant of Started in which subscribeTracked invokes the callback itself.
Started_notifies(r) ==
  /\ status' = IF r.threw THEN "failed" ELSE "active"
  /\ Put(IF r.threw THEN r ELSE callback(r, g, heap), queue)

\* subscribeTracked returns (r: the engine after the initial
\* setupSubscriptions) or throws; the consumer that got the handle reads the
\* current value.
Started(r) ==
  /\ status' = IF r.threw THEN "failed" ELSE "active"
  /\ Put(IF r.threw THEN r
         ELSE [r EXCEPT !.seen = getSnapshot(g, heap).res,
                        !.rendered = useTrackedSnapshot(getSnapshot(g, heap).res, heap)],
         queue)

\* The engine's listener has run on the delivery for slot s, leaving r.
Ran(r, s, q) ==
  /\ Put(r, q)
  /\ fired' = PairOf(s)
  /\ nthrows' = IF r.threw THEN nthrows + 1 ELSE nthrows
  /\ called' = (called \/ r.calls # calls)

\* subscribeTracked(proxy, getter, callback): the initial setupSubscriptions;
\* returns cleanup, or throws what the getter threw.  The consumer reads the
\* current value once it holds the handle.
Start ==
  /\ status = "idle"
  /\ Started(setupSubscriptions(E, g, heap, queue))
  /\ UNCHANGED <<g, kept, heap, queue, fired, nmut, tmuts, umuts, lastMut, nthrows, batched,
                 cancelled, engine2, called>>

\* The caller assigns proxy[key] = v (a value other than the current one; the
\* store ignores an assignment of the same value).  The store notifies the
\* listeners of the object and of the objects holding it; each listener
\* without a queued microtask queues one.
Mutate ==
  /\ nmut < MaxMutations
  /\ \E a \in Assignable(g) : \E v \in a[3] \ {heap[a[1]][a[2]]} :
       LET o == a[1]
           k == a[2]
           notified == Notified(heap, o)
       IN
       /\ heap' = [heap EXCEPT ![o][k] = v]
       /\ queue' = queue \o SelectSeq(listeners,
                        LAMBDA s : subs[s].obj \in notified /\ s \notin Range(queue))
       /\ tmuts' = IF status = "active" /\ <<o, k>> \in Pairs(listeners)
                   THEN tmuts + 1 ELSE tmuts
       /\ umuts' = IF status = "active" /\ <<o, k>> \notin Pairs(listeners)
                   THEN umuts + 1 ELSE umuts
       /\ lastMut' = <<o, k>>
       /\ stale' = stale \ {v}
  /\ nmut' = nmut + 1
  /\ batched' = (batched \/ (status = "active" /\ queue # <<>>))
  /\ called' = FALSE
  /\ UNCHANGED <<g, kept, status, unsubs, isTracking, accesses, listeners, subs, calls,
                 seen, cbOpen, rendered, trackOpen, threw, passes, fired, nthrows,
                 cancelled,
                 engine2>>

\* The store runs the microtask at the head of the queue (one that is not
\* for a listener of the second engine, see Deliver2): a cancelled
\* listener is skipped; a live one compares the key's value with the one it
\* remembers and, if they differ, runs the engine's listener.
Deliver ==
  /\ queue # <<>>
  /\ Head(queue) \notin Range(engine2.unsubs)
  /\ LET s == Head(queue)
         q == Tail(queue)
         cur == Get(heap, subs[s].obj, subs[s].key)
     IN
     /\ queue' = q
     /\ IF s \in Range(listeners) /\ cur # subs[s].prev
        THEN Ran(listener([E EXCEPT !.subs[s].prev = cur], g, heap, q), s, q)
        ELSE /\ Put(E, q)
             /\ UNCHANGED <<fired, nthrows, called>>
  /\ UNCHANGED <<g, kept, heap, status, nmut, tmuts, umuts, lastMut, batched, cancelled,
                 engine2>>

\* The handle subscribeTracked returned (cleanup), called by the consumer
\* for the first time.  forEach invokes every handle the array holds.
Teardown ==
  /\ status = "active"
  /\ status' = "torndown"
  /\ cancelled' = Len(unsubs)
  /\ Put(cleanup(E), queue)
  /\ UNCHANGED <<g, kept, heap, queue, fired, nmut, tmuts, umuts, lastMut, nthrows, batched,
                 engine2, called>>

Next == Start \/ Mutate \/ Deliver \/ Teardown

Spec == Init /\ [][Next]_vars

\* ------------------------------------ a consumer that tears down again
\* The handle called a second or further time.
TeardownAgain ==
  /\ status = "torndown"
  /\ status' = "torndown"
  /\ cancelled' = Len(unsubs)
  /\ Put(cleanup(E), queue)
  /\ UNCHANGED <<g, kept, heap, queue, fired, nmut, tmuts, umuts, lastMut, nthrows, batched,
                 engine2, called>>

NextAgain == Start \/ Mutate \/ Deliver \/ Teardown \/ TeardownAgain
SpecAgain == Init /\ [][NextAgain]_vars

\* ------------------------- a consumer that unsubscribes in its callback
\* const unsub = subscribeTracked(proxy, getter, () => { ...; unsub() }):
\* the callback of this consumer ends by calling the teardown handle.
callbackUnsub(e, sel, h) == cleanup(callback(e, sel, h))

thenCallbackUnsub(r, sel, h) == IF r.threw THEN r ELSE callbackUnsub(r, sel, h)

\* The engine's listener with that callback: setupSubscriptions(); callback().
listenerUnsub(e, sel, h, q) == thenCallbackUnsub(setupSubscriptions(e, sel, h, q), g, h)

\* The listener has run on the delivery for slot s, leaving r; if it reached
\* the callback, the handle has been called in it and has invoked the
\* handles of the listeners the rebuild had opened, one per pair.
RanUnsub(r, s, q) ==
  /\ Ran(r, s, q)
  /\ status' = IF r.calls # calls THEN "torndown" ELSE status
  /\ cancelled' = IF r.calls # calls THEN Len(r.accesses) ELSE cancelled

DeliverSelf ==
  /\ queue # <<>>
  /\ LET s == Head(queue)
         q == Tail(queue)
         cur == Get(heap, subs[s].obj, subs[s].key)
     IN
     /\ queue' = q
     /\ IF s \in Range(listeners) /\ cur # subs[s].prev
        THEN RanUnsub(listenerUnsub([E EXCEPT !.subs[s].prev = cur], g, heap, q), s, q)
        ELSE /\ Put(E, q)
             /\ UNCHANGED <<fired, nthrows, called, status, cancelled>>
  /\ UNCHANGED <<g, kept, heap, nmut, tmuts, umuts, lastMut, batched, engine2>>

NextSelf == Start \/ Mutate \/ DeliverSelf \/ Teardown
SpecSelf == Init /\ [][NextSelf]_vars

\* ---------------------------------------- two engines on the same proxy
\* subscribeTracked(state, (s) => s.count, cb1) and
\* subscribeTracked(state, (s) => s.name, cb2): each call has its own unsubs
\* and isTracking; the store is shared.
Getter2 == "name"

\* The second engine's fields as the record the engine's functions work on.
E2 == [unsubs |-> engine2.unsubs, isTracking |-> engine2.isTracking,
       accesses |-> engine2.accesses, listeners |-> listeners, subs |-> subs,
       calls |-> engine2.calls, seen |-> engine2.seen, cbOpen |-> engine2.cbOpen,
       threw |-> engine2.threw, passes |-> engine2.passes, stale |-> engine2.stale,
       rendered |-> engine2.rendered, trackOpen |-> engine2.trackOpen]

\* Store r back as the second engine with status st.
Put2(r, q, st) ==
  /\ engine2' = [status |-> st, unsubs |-> r.unsubs, isTracking |-> r.isTracking,
                 accesses |-> r.accesses, calls |-> r.calls, seen |-> r.seen,
                 cbOpen |-> r.cbOpen, threw |-> r.threw, passes |-> r.passes,
                 stale |-> r.stale, rendered |-> r.rendered,
                 trackOpen |-> r.trackOpen]
  /\ listeners' = r.listeners
  /\ subs' = [i \in SubIds |->
               IF i \in Range(r.listeners) \cup Range(q) THEN r.subs[i] ELSE NoSub]

Started2(r) ==
  Put2(IF r.threw THEN r
       ELSE [r EXCEPT !.seen = getSnapshot(Getter2, heap).res,
                      !.rendered = useTrackedSnapshot(getSnapshot(Getter2, heap).res, heap)],
       queue, IF r.threw THEN "failed" ELSE "active")

Start2 ==
  /\ engine2.status = "idle"
  /\ Started2(setupSubscriptions(E2, Getter2, heap, queue))
  /\ UNCHANGED <<g, kept, heap, status, unsubs, isTracking, accesses, queue, calls, seen,
                 cbOpen, rendered, trackOpen, threw, passes, stale, fired, nmut, tmuts,
                 umuts, lastMut,
                 nthrows, batched, cancelled, called>>

\* The microtask at the head of the queue is for a listener of the second
\* engine.
Deliver2 ==
  /\ queue # <<>>
  /\ Head(queue) \in Range(engine2.unsubs)
  /\ LET s == Head(queue)
         q == Tail(queue)
         cur == Get(heap, subs[s].obj, subs[s].key)
     IN
     /\ queue' = q
     /\ IF s \in Range(listeners) /\ cur # subs[s].prev
        THEN Put2(listener([E2 EXCEPT !.subs[s].prev = cur], Getter2, heap, q), q,
                  engine2.status)
        ELSE Put2(E2, q, engine2.status)
  /\ UNCHANGED <<g, kept, heap, status, unsubs, isTracking, accesses, calls, seen,
                 cbOpen, rendered, trackOpen, threw, passes, stale, fired, nmut, tmuts,
                 umuts, lastMut,
                 nthrows, batched, cancelled, called>>

Teardown2 ==
  /\ engine2.status = "active"
  /\ Put2(cleanup(E2), queue, "torndown")
  /\ UNCHANGED <<g, kept, heap, status, unsubs, isTracking, accesses, queue, calls, seen,
                 cbOpen, rendered, trackOpen, threw, passes, stale, fired, nmut, tmuts,
                 umuts, lastMut,
                 nthrows, batched, cancelled, called>>

InitTwo == g = "count" /\ InitState
NextTwo == Start \/ Start2 \/ Mutate \/ Deliver \/ Deliver2 \/ Teardown \/ Teardown2
SpecTwo == InitTwo /\ [][NextTwo]_vars

\* ------------------------------------------- the hook in a component
\* useTrackedSnapshot(state, selector) in a mounted component: the first
\* engine is the one useSyncExternalStore subscribes at mount (Start), its
\* callback re-renders the component, and unmounting calls its handle.
\* selector is s.count, s.user (a proxy of the store, or null) or s.el (an
\* object that is no proxy).
HookGetters == {"count", "user", "el"}

\* The component renders again with the selector (s) => s.name: subscribe
\* has a new identity, so React calls the handle of the old subscription
\* and subscribes again, which starts subscribeTracked with the new
\* selector.
Reselect ==
  /\ status = "active"
  /\ engine2.status = "idle"
  /\ status' = "torndown"
  /\ cancelled' = Len(unsubs)
  /\ unsubs' = cleanup(E).unsubs
  /\ Started2(setupSubscriptions([E2 EXCEPT !.listeners = cleanup(E).listeners],
                                 Getter2, heap, queue))
  /\ UNCHANGED <<g, kept, heap, isTracking, accesses, queue, calls, seen, cbOpen, rendered,
                 trackOpen, threw, passes, stale, fired, nmut, tmuts, umuts, lastMut,
                 nthrows, batched, called>>

InitHook == g \in HookGetters /\ InitState
NextHook == Start \/ Mutate \/ Deliver \/ Deliver2 \/ Reselect \/ Teardown \/ Teardown2
SpecHook == InitHook /\ [][NextHook]_vars

\* ----------------------------- a consumer that assigns in its callback
\* subscribeTracked(state, getter, () => { ...; state.key = v }): the
\* callback of this consumer ends by an assignment to the proxy, the same at
\* every call: <<object, key, value>> per getter.
ReenterGetters == {"count", "cond", "userOpt"}
CallbackAssigns(sel) ==
  CASE sel = "count" -> <<Root, "count", "2">>
    [] sel = "cond" -> <<Root, "mode", "b">>
    [] OTHER -> <<Root, "user", Null>>

\* The queue q once the store has notified the listeners lst of an
\* assignment to a key of o: each listener of o or of an object holding it
\* that has no queued microtask queues one.
Notify(q, lst, sb, h, o) ==
  q \o SelectSeq(lst, LAMBDA s : sb[s].obj \in Notified(h, o) /\ s \notin Range(q))

\* The listener has run on the delivery for slot s, leaving r; if it reached
\* the callback, the callback has made its assignment a (the store ignores
\* it if the key holds that value already) and the store has queued the
\* notifications of the listeners r holds.
RanAssign(r, s, q, a) ==
  IF r.calls # calls /\ heap[a[1]][a[2]] # a[3]
  THEN /\ queue' = Notify(q, r.listeners, r.subs, heap, a[1])
       /\ Ran([r EXCEPT !.stale = @ \ {a[3]}], s,
              Notify(q, r.listeners, r.subs, heap, a[1]))
       /\ heap' = [heap EXCEPT ![a[1]][a[2]] = a[3]]
       /\ lastMut' = <<a[1], a[2]>>
  ELSE /\ queue' = q
       /\ Ran(r, s, q)
       /\ UNCHANGED <<heap, lastMut>>

DeliverAssign ==
  /\ queue # <<>>
  /\ LET s == Head(queue)
         q == Tail(queue)
         cur == Get(heap, subs[s].obj, subs[s].key)
     IN
     IF s \in Range(listeners) /\ cur # subs[s].prev
     THEN RanAssign(listener([E EXCEPT !.subs[s].prev = cur], g, heap, q), s, q,
                    CallbackAssigns(g))
     ELSE /\ queue' = q
          /\ Put(E, q)
          /\ UNCHANGED <<heap, lastMut, fired, nthrows, called>>
  /\ UNCHANGED <<g, kept, status, nmut, tmuts, umuts, batched, cancelled, engine2>>

InitReenter == g \in ReenterGetters /\ InitState
NextReenter == Start \/ Mutate \/ DeliverAssign \/ Teardown
SpecReenter == InitReenter /\ [][NextReenter]_vars

\* ------------------------------------- a getter that keeps its wrapper
\* let kept; (s) => { if (kept) kept.user; kept ??= s; return s.count }
\* The first call of the getter is the initial pass, so kept is the wrapper
\* of that pass, whose onAccess records into the Map of that pass.

\* Variant of readKept in which every wrapper of the engine records into the
\* Map of the pass that is running.
readKept_currentSet(isTr, own, cur, h) ==
  [own |-> own,
   cur |-> IF isTr THEN onAccess(cur, Root, "user") ELSE cur,
   val |-> createTracker(isTr, own, h, Root, "user", 1).val]

\* kept.user: the get trap of the kept wrapper, isTr being isTracking.current
\* at the read; own is the Map of the wrapper's pass, cur the Map of the
\* pass that is running, if one is.
readKept(isTr, own, cur, h) ==
  [own |-> createTracker(isTr, own, h, Root, "user", 1).acc,
   cur |-> cur,
   val |-> createTracker(isTr, own, h, Root, "user", 1).val]

\* return s.count, in a pass whose Map is cur so far.
keptCount(cur, h) == Done(ReadProp("tracked", TRUE, cur, h, RootOf("tracked"), "count", 2))

\* trackAccesses with this getter, k being the getter's record of kept: the
\* access map of the pass.
passKept(k, h) ==
  IF k.has THEN keptCount(readKept(TRUE, k.acc, <<>>, h).cur, h)
  ELSE keptCount(<<>>, h)

\* The getter's record of kept once the pass has run.
keptAfterPass(k, h) ==
  IF k.has
  THEN [k EXCEPT !.acc = readKept(TRUE, k.acc, <<>>, h).own,
                 !.inPass = readKept(TRUE, k.acc, <<>>, h).val]
  ELSE [k EXCEPT !.has = TRUE, !.acc = keptCount(<<>>, h).acc]

\* The getter called on the live proxy, outside a pass (the consumer reads
\* the current value): kept.user is read with isTracking.current false.
keptAfterLive(k, h) ==
  [k EXCEPT !.acc = readKept(FALSE, k.acc, <<>>, h).own,
            !.outside = readKept(FALSE, k.acc, <<>>, h).val]

StartKept ==
  /\ status = "idle"
  /\ Started(subscribeAll(duringPass(cleanup(E), E), passKept(kept, heap), heap, queue))
  /\ kept' = keptAfterLive(keptAfterPass(kept, heap), heap)
  /\ UNCHANGED <<g, heap, queue, fired, nmut, tmuts, umuts, lastMut, nthrows, batched,
                 cancelled, engine2, called>>

\* The engine after its listener ran on e: setupSubscriptions(); callback().
listenerKept(e, k, h, q) ==
  thenCallback(subscribeAll(duringPass(cleanup(e), e), passKept(k, h), h, q), "kept", h)

DeliverKept ==
  /\ queue # <<>>
  /\ LET s == Head(queue)
         q == Tail(queue)
         cur == Get(heap, subs[s].obj, subs[s].key)
     IN
     /\ queue' = q
     /\ IF s \in Range(listeners) /\ cur # subs[s].prev
        THEN /\ Ran(listenerKept([E EXCEPT !.subs[s].prev = cur], kept, heap, q), s, q)
             /\ kept' = keptAfterLive(keptAfterPass(kept, heap), heap)
        ELSE /\ Put(E, q)
             /\ UNCHANGED <<fired, nthrows, called, kept>>
  /\ UNCHANGED <<g, heap, status, nmut, tmuts, umuts, lastMut, batched, cancelled,
                 engine2>>

InitKept == g = "kept" /\ InitState
NextKept == StartKept \/ Mutate \/ DeliverKept \/ Teardown
SpecKept == InitKept /\ [][NextKept]_vars

\* ------------------------------- a consumer that reads the current value
\* getSnapshot(proxy), as useSyncExternalStore calls it in a render or to
\* check for a change: the getter runs on the proxy itself, not on a
\* wrapper.  If the getter throws, the consumer gets the exception and
\* nothing else happens.

\* Variant of Read in which the value is read by a tracking pass of the engine.
Read_tracked ==
  /\ status = "active"
  /\ ~getSnapshot(g, heap).threw
  /\ seen' = getSnapshot(g, heap).res
  /\ rendered' = useTrackedSnapshot(getSnapshot(g, heap).res, heap)
  /\ accesses' = trackAccesses(g, heap).acc
  /\ UNCHANGED <<g, kept, heap, status, unsubs, isTracking, listeners, subs,
                 queue, calls, cbOpen, threw, passes, stale, fired, nmut, tmuts, umuts,
                 lastMut, nthrows, batched, cancelled, engine2, called, trackOpen>>

Read ==
  /\ status = "active"
  /\ ~getSnapshot(g, heap).threw
  /\ seen' = getSnapshot(g, heap).res
  /\ rendered' = useTrackedSnapshot(getSnapshot(g, heap).res, heap)
  /\ UNCHANGED <<g, kept, heap, status, unsubs, isTracking, accesses, listeners, subs,
                 queue, calls, cbOpen, threw, passes, stale, fired, nmut, tmuts, umuts,
                 lastMut, nthrows, batched, cancelled, engine2, called, trackOpen>>

ReadGetters == {"count", "cond", "userStrict"}
InitRead == g \in ReadGetters /\ InitState
NextRead == Start \/ Mutate \/ Deliver \/ Teardown \/ Read
SpecRead == InitRead /\ [][NextRead]_vars

\* ---------------------------------------- getters on deeper structures
\* The same engine started with the getter that reads through two nested
\* objects, with the one that reads a getter property of the root, or with
\* the one that reads a name three times through two properties of the root
\* that may hold the same object.
MoreGetters == {"chain", "computed", "paths"}
InitMore == g \in MoreGetters /\ InitState
SpecMore == InitMore /\ [][Next]_vars

\* ------------------------------- a graph holding an object not proxied
\* state = proxy({mode, a, el: ref({x})}) with the getter
\* (s) => s.mode === "a" ? s.a : s.el.x: the pass that reads s.el.x makes
\* the engine call subscribeKey on an object the store does not know.
InitRef == g = "ref" /\ InitState
SpecRef == InitRef /\ [][Next]_vars

\* ------------------------------------- a store whose cancellation is late
\* The same engine over a store in which cancelling a listener does not stop
\* a notification that is already queued for it: the microtask runs the
\* listener's callback whether or not the listener has been cancelled since.
DeliverLate ==
  /\ queue # <<>>
  /\ LET s == Head(queue)
         q == Tail(queue)
         cur == Get(heap, subs[s].obj, subs[s].key)
     IN
     /\ queue' = q
     /\ IF cur # subs[s].prev
        THEN Ran(listener([E EXCEPT !.subs[s].prev = cur], g, heap, q), s, q)
        ELSE /\ Put(E, q)
             /\ UNCHANGED <<fired, nthrows, called>>
  /\ UNCHANGED <<g, kept, heap, status, nmut, tmuts, umuts, lastMut, batched, cancelled,
                 engine2>>

LateGetters == {"count", "cond"}
InitLate == g \in LateGetters /\ InitState
NextLate == Start \/ Mutate \/ DeliverLate \/ Teardown
SpecLate == InitLate /\ [][NextLate]_vars

\* ------------------------------------------------------------- properties
\* Every action is one whole call, so every state is one in which no start
\* and no rebuild is in progress.
Quiescent == status = "active" /\ queue = <<>>
DeliverStep == queue # <<>> /\ queue' = Tail(queue)

\* C1: whenever the engine is started and not torn down, its open listeners
\* are exactly the pairs of the latest tracking pass, one listener per pair.
C1_ListenersEqualLatestPass ==
  status = "active" =>
    /\ Pairs(listeners) = Range(accesses)
    /\ Len(listeners) = Cardinality(Range(accesses))

\* C2: the pairs a tracking pass records equal the pairs the getter reads on
\* the live proxy, in every state.
C2_TrackedReadsEqualLiveReads ==
  Range(trackAccesses(g, heap).acc) = Range(getSnapshot(g, heap).acc)

C5_NoMissedUpdate ==
  (Quiescent /\ ~threw) => seen = getSnapshot(g, heap).res

\* C6: with a getter reading s.user.name, once the rebuild after a
\* replacement of user has run the engine listens to name on the new object,
\* and the delivery of a change of that name runs the callback.
C6_NewObjectTracked ==
  /\ [](\A o \in Children :
          (Quiescent /\ ~threw /\ g \in {"userOpt", "userStrict"} /\ heap[Root].user = o)
            => \E s \in Range(listeners) :
                 /\ subs[s].obj = o /\ subs[s].key = "name"
                 /\ subs[s].prev = heap[o].name)
  /\ [][(/\ status = "active" /\ g \in {"userOpt", "userStrict"}
         /\ DeliverStep
         /\ Head(queue) \in Range(listeners)
         /\ subs[Head(queue)].obj = heap[Root].user
         /\ subs[Head(queue)].key = "name"
         /\ subs[Head(queue)].prev # heap[heap[Root].user].name)
        => calls' = calls + 1]_vars

C6_Witness ==
  /\ g = "userOpt" /\ status = "active"
  /\ heap[Root].user = "U2"
  /\ fired = <<"U2", "name">>
  /\ calls >= 2

\* C7: an object that no property of the root held when the latest rebuild
\* ran (and that has not been put back since) has no open listener, and no
\* callback comes from a listener on it.
C7_OldObjectSilent ==
  /\ [](\A s \in Range(listeners) : subs[s].obj \notin stale)
  /\ [][calls' # calls => (DeliverStep /\ subs[Head(queue)].obj \notin stale)]_vars

C7_Witness ==
  /\ g = "userOpt" /\ Quiescent
  /\ "U1" \in stale
  /\ lastMut = <<"U1", "name">>
  /\ umuts >= 1 /\ calls = 1

C9_CallbackAfterRebuild ==
  [][calls' # calls
       => /\ cbOpen' = Range(trackAccesses(g, heap').acc)
          /\ cbOpen' = {<<subs'[s].obj, subs'[s].key>> : s \in Range(listeners')}]_vars

C9_Witness ==
  /\ g = "cond" /\ calls = 1
  /\ fired = <<Root, "mode">>
  /\ cbOpen = {<<Root, "mode">>, <<Root, "b">>}

\* C10: after teardown the callback never runs again and no listener is
\* open, whatever assignments follow.
C10_TornDownIsSilent ==
  /\ [](status = "torndown" => (listeners = <<>> /\ unsubs = <<>>))
  /\ [][status = "torndown" => calls' = calls]_vars

C10_Witness ==
  /\ status = "torndown" /\ queue = <<>>
  /\ passes >= 2 /\ calls >= 1
  /\ lastMut \in Range(accesses)
  /\ seen # getSnapshot(g, heap).res

\* C11: a notification that reaches a listener of the engine after the
\* teardown handle has run is ignored: no rebuild, no new listener, no
\* callback; the torn-down engine keeps zero listeners.
C11_LateNotificationIgnored ==
  [][status = "torndown" =>
       (calls' = calls /\ passes' = passes /\ listeners' = <<>> /\ unsubs' = <<>>)]_vars
\* C12: the teardown handle is idempotent: once it has run the array holds
\* no handle a further call could invoke, a further call invokes none and
\* changes nothing of the engine or of the store, and cleanup applied twice
\* gives what cleanup applied once gives.
C12_TeardownIdempotent ==
  /\ [](status = "torndown" => unsubs = <<>>)
  /\ [](cleanup(cleanup(E)) = cleanup(E))
  /\ [][(status = "torndown" /\ cancelled' # cancelled) =>
         (cancelled' = 0 /\ UNCHANGED <<status, unsubs, isTracking, accesses, listeners,
                                        subs, queue, calls, seen, passes, heap>>)]_vars
\* The handle has been called again after a call that cancelled the listener
\* of count; the callback had run before.
C12_Witness ==
  /\ g = "count" /\ status = "torndown" /\ cancelled = 0 /\ calls >= 1
  /\ lastMut = <<Root, "count">> /\ seen # getSnapshot(g, heap).res /\ queue = <<>>
\* C13: when the callback calls the teardown handle, the call cancels every
\* listener the preceding rebuild opened (one per pair of its pass) and
\* leaves the engine without listeners and handles; the callback is never
\* invoked again, and no rebuild runs, whatever is assigned later.
C13_TeardownInCallback ==
  /\ [](calls <= 1)
  /\ [](calls = 1 => (status = "torndown" /\ listeners = <<>> /\ unsubs = <<>>))
  /\ [][calls' # calls =>
         (/\ cbOpen' = Range(accesses') /\ cbOpen' # {}
          /\ cancelled' = Cardinality(cbOpen')
          /\ listeners' = <<>> /\ unsubs' = <<>>)]_vars
  /\ [][status = "torndown" => (calls' = calls /\ passes' = passes)]_vars
\* The callback has unsubscribed; a pair it was subscribed to was assigned
\* afterwards and every notification has been handled.
C13_Witness ==
  /\ g = "cond" /\ calls = 1 /\ status = "torndown" /\ cancelled = 2
  /\ cbOpen = {<<Root, "mode">>, <<Root, "b">>}
  /\ lastMut = <<Root, "b">> /\ seen # getSnapshot(g, heap).res /\ queue = <<>>
\* C14: two engines on the same root, one reading count and one reading
\* name.  Each engine's callback and rebuild run only on the delivery of a
\* change of its own pair; an engine's handles and counters change only by
\* its own rebuild or teardown; while an engine is active its listener stays
\* open on its own pair, whatever the other engine does, and it has seen the
\* current value once every notification is handled.
C14_Independence ==
  /\ [](status = "active" =>
          (Range(unsubs) \subseteq Range(listeners) /\ Pairs(unsubs) = {<<Root, "count">>}))
  /\ [](engine2.status = "active" =>
          (/\ Range(engine2.unsubs) \subseteq Range(listeners)
           /\ Pairs(engine2.unsubs) = {<<Root, "name">>}))
  /\ []((status = "active" /\ queue = <<>>) => seen = heap[Root].count)
  /\ []((engine2.status = "active" /\ queue = <<>>) => engine2.seen = heap[Root].name)
  /\ [][(calls' # calls \/ (passes' # passes /\ status = "active")) =>
         (/\ DeliverStep /\ PairOf(Head(queue)) = <<Root, "count">>
          /\ subs[Head(queue)].prev # heap[Root].count
          /\ engine2' = engine2)]_vars
  /\ [][(engine2.calls' # engine2.calls
          \/ (engine2.passes' # engine2.passes /\ engine2.status = "active")) =>
         (/\ DeliverStep /\ PairOf(Head(queue)) = <<Root, "name">>
          /\ subs[Head(queue)].prev # heap[Root].name
          /\ UNCHANGED <<status, unsubs, accesses, calls, seen, passes>>)]_vars
  /\ [][(passes' = passes /\ status' = status) => UNCHANGED <<unsubs, calls, seen>>]_vars
  /\ [][(engine2.passes' = engine2.passes /\ engine2.status' = engine2.status) =>
         engine2' = engine2]_vars
\* The first engine was called once and torn down; the second, still
\* active, has been called of two changes of name since.
C14_Witness ==
  /\ status = "torndown" /\ calls = 1 /\ cancelled = 1
  /\ engine2.status = "active" /\ engine2.calls = 2 /\ engine2.passes = 3
  /\ lastMut = <<Root, "name">> /\ queue = <<>>
  /\ heap[Root].count # seen
\* C15: one store change never invokes the callback twice: the callback is
\* invoked once per step and only if it has not been invoked since the
\* latest assignment, also when several listeners of the engine were queued
\* for changed values; a rebuild after the start runs under the same
\* condition; the notification of a listener that a rebuild has cancelled
\* runs no rebuild and no callback.
C15_NoDoubleFiring ==
  /\ [][calls' # calls => (~called /\ calls' = calls + 1)]_vars
  /\ [][(passes' # passes /\ passes >= 1) => (~called /\ passes' = passes + 1)]_vars
  /\ [][(DeliverStep /\ Head(queue) \notin Range(listeners)) =>
         (calls' = calls /\ passes' = passes /\ listeners' = listeners)]_vars
\* mode and a were assigned while both tracked, before any delivery: the
\* listeners of both pairs were queued with changed values and the callback
\* ran once.
C15_Witness ==
  /\ g = "cond" /\ nmut = 2 /\ tmuts = 2 /\ calls = 1 /\ passes = 2 /\ queue = <<>>
  /\ heap[Root].mode = "b" /\ heap[Root].a = "1" /\ called /\ status = "active"
\* C16: when the getter throws during a change-triggered rebuild the rebuild
\* is aborted with the previous subscriptions untouched: the engine still
\* holds open listeners, among them those of the pairs the failed pass read.
C16_ThrowKeepsPreviousSet ==
  (status = "active" /\ threw) =>
    (/\ unsubs # <<>> /\ Range(unsubs) \subseteq Range(listeners)
     /\ Range(accesses) \subseteq Pairs(listeners))

\* C17: when the getter throws during the initial build, subscribeTracked
\* throws: no handle is returned (the engine is never active or torn down
\* afterwards), no listener is open on the store, also not for the pairs
\* read before the throw, and nothing runs later: no pass, no callback.
C17_InitialThrowOpensNothing ==
  /\ [](status = "failed" =>
          (/\ threw /\ passes = 1 /\ calls = 0 /\ accesses # <<>>
           /\ listeners = <<>> /\ unsubs = <<>> /\ ~isTracking))
  /\ [][status = "failed" => status' = "failed"]_vars
\* The getter s.user.name was started with state.user = null; later
\* assignments, among them to the pair it read, were delivered.
C17_Witness ==
  /\ g = "userStrict" /\ status = "failed" /\ accesses = <<<<Root, "user">>>>
  /\ heap[Root].user = "U2" /\ lastMut = <<Root, "user">> /\ nmut >= 2 /\ queue = <<>>
\* C18: when subscribeKey throws part-way through a batch, no listener the
\* engine opened is beyond cleanup: every open listener has its handle in
\* the engine's array, and the consumer holds the teardown handle that
\* invokes them (subscribeTracked returned it and it has not been used).
C18_OpenedListenersReachable ==
  /\ Range(listeners) \subseteq Range(unsubs)
  /\ (listeners # <<>> => status = "active")
\* C19: an engine whose getter reads no property of the root opens no
\* listener at start, never rebuilds and never invokes its callback,
\* whatever is assigned.
C19_NoAccessNoSubscription ==
  /\ [](g = "const" =>
          (/\ listeners = <<>> /\ unsubs = <<>> /\ queue = <<>> /\ accesses = <<>>
           /\ calls = 0 /\ passes <= 1 /\ tmuts = 0))
  /\ [](g = "const" => trackAccesses(g, heap).acc = <<>>)
\* The engine is started and two keys of the root have been assigned since.
C19_Witness ==
  /\ g = "const" /\ status = "active" /\ passes = 1 /\ umuts >= 3
  /\ heap[Root].count = "2" /\ heap[Root].name = "y"

\* C20: the root holds a reference to itself.  A pass of the getter s.count
\* or s.self.self.value ends with a finite access map holding each pair it
\* read once; an active engine has one listener per pair; and the delivery
\* of a change of the tracked scalar invokes the callback.
C20_CycleSafety ==
  /\ [](heap[Root].self = Root)
  /\ [](g = "cycle" =>
          trackAccesses(g, heap).acc = <<<<Root, "self">>, <<Root, "value">>>>)
  /\ [](g = "count" => trackAccesses(g, heap).acc = <<<<Root, "count">>>>)
  /\ []((g \in {"count", "cycle"} /\ status = "active") =>
          (/\ accesses = trackAccesses(g, heap).acc
           /\ Pairs(listeners) = Range(accesses)
           /\ Len(listeners) = Len(accesses)))
  /\ [][(/\ g \in {"count", "cycle"} /\ status = "active" /\ DeliverStep
          /\ PairOf(Head(queue)) \in {<<Root, "count">>, <<Root, "value">>}
          /\ subs[Head(queue)].prev # heap[Root][subs[Head(queue)].key])
         => calls' = calls + 1]_vars
\* The engine on s.self.self.value has been notified of two changes of value.
C20_Witness ==
  /\ g = "cycle" /\ Quiescent /\ calls = 2 /\ passes = 3
  /\ fired = <<Root, "value">> /\ lastMut = <<Root, "value">> /\ seen = heap[Root].value
  /\ Len(listeners) = 2
\* C21: subscribeTracked runs one tracking pass and opens the listeners of
\* its pairs without invoking the callback: the callback has not run before
\* the start, does not run in it, and has not run while no assignment to a
\* pair with an open listener has been made.
C21_StartDoesNotNotify ==
  /\ [](status = "idle" => (calls = 0 /\ passes = 0 /\ listeners = <<>>))
  /\ [][status = "idle" =>
         (/\ calls' = 0
          /\ status' = "active" =>
                (/\ passes' = 1 /\ accesses' = trackAccesses(g, heap).acc
                 /\ Pairs(listeners)' = Range(accesses')
                 /\ seen' = getSnapshot(g, heap).res))]_vars
  /\ [](tmuts = 0 => calls = 0)
\* The engine on the conditional getter was started, and assignments to the
\* branch it does not read were made and delivered since.
C21_Witness ==
  /\ g = "cond" /\ Quiescent /\ passes = 1 /\ calls = 0 /\ Len(listeners) = 2
  /\ lastMut = <<Root, "b">> /\ umuts >= 2 /\ tmuts = 0
\* The pairs s.user.profile.name reads on the graph h, in reading order.
ChainPath(h) ==
  <<<<Root, "user">>, <<h[Root].user, "profile">>, <<h[h[Root].user].profile, "name">>>>

\* C22: the getter s.user.profile.name is tracked at every hop: its pass
\* yields (state,user), (the object at user, profile), (the object at
\* user.profile, name), in that order and nothing else; the engine holds one
\* listener per hop; the delivery of a replacement of the object at user or
\* at user.profile invokes the callback and leaves the listeners on the
\* new path.
C22_ChainTrackedAtEveryHop ==
  /\ [](g = "chain" => trackAccesses(g, heap).acc = ChainPath(heap))
  /\ []((g = "chain" /\ Quiescent) =>
          (/\ accesses = ChainPath(heap) /\ Len(listeners) = 3
           /\ Pairs(listeners) = Range(ChainPath(heap))
           /\ seen = heap[heap[heap[Root].user].profile].name))
  /\ [][(/\ g = "chain" /\ status = "active" /\ DeliverStep
          /\ Head(queue) \in Range(listeners)
          /\ subs[Head(queue)].key \in {"user", "profile"}
          /\ subs[Head(queue)].prev # heap[subs[Head(queue)].obj][subs[Head(queue)].key])
         => (/\ calls' = calls + 1
             /\ Pairs(listeners)' = Range(ChainPath(heap)) /\ Len(listeners') = 3)]_vars
\* The object at user.profile was replaced, then the object at user, each
\* delivered on its own, and the callback ran for each; the engine listens
\* on the new path.
C22_Witness ==
  /\ g = "chain" /\ Quiescent /\ calls = 2 /\ nmut = 2 /\ ~batched
  /\ heap[Root].user = "U2" /\ heap["U1"].profile = "P2"
  /\ fired = <<Root, "user">>
  /\ Pairs(listeners) = {<<Root, "user">>, <<"U2", "profile">>, <<"P2", "name">>}

\* The pairs s.user?.name reads on the graph h.
OptShape(h) ==
  IF h[Root].user = Null THEN {<<Root, "user">>}
  ELSE {<<Root, "user">>, <<h[Root].user, "name">>}

\* C23: with the getter s.user?.name, a read of user that yields null
\* returns it unwrapped and the pass stops at (state,user); the delivery of
\* each change of a tracked pair (null to object, the object's name, object
\* to null) invokes the callback once and leaves exactly the listeners of
\* the new shape; with every assignment delivered on its own the callback
\* has run once per assignment to a tracked pair.
C23_NullInChain ==
  /\ []((g = "userOpt" /\ heap[Root].user = Null) =>
          (/\ createTracker(TRUE, <<>>, heap, Root, "user", 1).val = Raw(Null)
           /\ trackAccesses(g, heap).acc = <<<<Root, "user">>>>
           /\ trackAccesses(g, heap).res = Undefined
           /\ ~trackAccesses(g, heap).threw))
  /\ []((g = "userOpt" /\ Quiescent) =>
          (Pairs(listeners) = OptShape(heap) /\ Len(listeners) = Cardinality(OptShape(heap))))
  /\ []((g = "userOpt" /\ Quiescent /\ ~batched) => calls = tmuts)
  /\ [][(/\ g = "userOpt" /\ status = "active" /\ DeliverStep
          /\ Head(queue) \in Range(listeners)
          /\ subs[Head(queue)].prev # heap[subs[Head(queue)].obj][subs[Head(queue)].key])
         => (/\ calls' = calls + 1
             /\ Pairs(listeners)' = OptShape(heap)
             /\ Len(listeners') = Cardinality(OptShape(heap)))]_vars
\* Started with user = null; then user was set to an object, the object's
\* name was changed, and user was set to null again, each delivered on its
\* own: three callbacks, and the engine listens on (state,user) alone.
C23_Witness ==
  /\ g = "userOpt" /\ Quiescent /\ ~batched /\ nmut = 4 /\ tmuts = 3 /\ calls = 3
  /\ umuts = 0 /\ passes = 4
  /\ heap[Root].user = Null /\ heap["U2"].name = "B" /\ fired = <<Root, "user">>
  /\ Pairs(listeners) = {<<Root, "user">>}

\* C24: with the getter s.computed, where computed is derived from the
\* field value of the same object, the pass records (state,computed) alone;
\* an assignment to value that changes computed invokes the callback, once,
\* and the engine then holds the new computed value.
C24_ComputedProperty ==
  /\ [](g = "computed" => trackAccesses(g, heap).acc = <<<<Root, "computed">>>>)
  /\ []((g = "computed" /\ Quiescent) =>
          (/\ Pairs(listeners) = {<<Root, "computed">>} /\ Len(listeners) = 1
           /\ seen = Twice(heap[Root].value)))
  /\ []((/\ g = "computed" /\ Quiescent /\ ~batched /\ tmuts + umuts >= 1
          /\ lastMut = <<Root, "value">>) => called)
  /\ [][(g = "computed" /\ calls' # calls) =>
           (/\ ~called /\ calls' = calls + 1
            /\ DeliverStep /\ subs[Head(queue)].key = "computed"
            /\ subs[Head(queue)].prev # Twice(heap[Root].value))]_vars
\* Two assignments to value after the start, each delivered on its own:
\* two callbacks, and the engine holds twice the latest value.
C24_Witness ==
  /\ g = "computed" /\ Quiescent /\ ~batched /\ nmut = 2 /\ umuts = 2 /\ tmuts = 0
  /\ calls = 2 /\ called /\ lastMut = <<Root, "value">> /\ heap[Root].value = "0"
  /\ seen = "0" /\ passes = 3

\* C25: what useTrackedSnapshot returns in a render is the snapshot of the
\* selector's result when that result is a proxy of the store, and the
\* selector's result itself when it is not (a primitive, null, an object
\* that is no proxy); this holds for the render at mount, for every render
\* a callback causes, and for the selector given later.
C25_SelectorResultBridge ==
  /\ []((status # "idle" /\ ~threw) =>
          (/\ seen \notin Proxies => rendered = seen
           /\ seen \in Proxies => rendered # seen))
  /\ [](engine2.status # "idle" => engine2.rendered = engine2.seen)
  /\ [][((status = "idle" /\ status' = "active") \/ calls' # calls) =>
           (/\ seen' = getSnapshot(g, heap).res
            /\ seen' \in Proxies => rendered' = useSnapshot(heap, seen')
            /\ seen' \notin Proxies => rendered' = seen')]_vars
  /\ [][engine2.calls' # engine2.calls =>
           (/\ engine2.seen' = heap[Root].name
            /\ engine2.rendered' = heap[Root].name)]_vars
\* The selector s.user gave another proxy after its name was changed: the
\* component got the snapshot of that proxy, holding the changed name.
C25_Witness ==
  /\ g = "user" /\ Quiescent /\ calls = 1 /\ seen = "U2" /\ heap["U2"].name = "B"
  /\ rendered = "snapshot(U2){name:B,profile:P2}"
  /\ fired = <<Root, "user">>

\* C26: when the mounted hook is given another selector, the handle of the
\* engine built for the old one is called and an engine is started for the
\* new one: from then on the old engine holds no handle and never runs
\* again, every open listener is one of the new engine, on the pair the new
\* selector reads; the component is notified only by the delivery of a
\* change of that pair, so not by an assignment to a field the old selector
\* alone read, and once the notifications are delivered it holds the new
\* selector's current value.
C26_SelectorChange ==
  /\ [](engine2.status # "idle" =>
          (/\ status = "torndown" /\ unsubs = <<>>
           /\ Range(listeners) = Range(engine2.unsubs)))
  /\ [](engine2.status = "active" =>
          (Pairs(listeners) = {<<Root, "name">>} /\ Len(listeners) = 1))
  /\ []((engine2.status = "active" /\ queue = <<>>) => engine2.seen = heap[Root].name)
  /\ [][(engine2.status = "idle" /\ engine2.status' # "idle") =>
           (/\ status = "active" /\ engine2.status' = "active"
            /\ cancelled' = Len(unsubs)
            /\ calls' = calls /\ engine2.calls' = 0
            /\ engine2.passes' = 1 /\ passes' = passes)]_vars
  /\ [][status = "torndown" => (calls' = calls /\ passes' = passes)]_vars
  /\ [][(engine2.status = "active" /\ heap[Root].name = engine2.seen) =>
           engine2.calls' = engine2.calls]_vars
  /\ [][engine2.calls' # engine2.calls =>
           (/\ DeliverStep /\ PairOf(Head(queue)) = <<Root, "name">>
            /\ subs[Head(queue)].prev # heap[Root].name
            /\ engine2.calls' = engine2.calls + 1)]_vars
\* Mounted with s.count, then given s.name; after that count was assigned
\* and delivered without a notification, then name, with one.
C26_Witness ==
  /\ g = "count" /\ status = "torndown" /\ engine2.status = "active" /\ queue = <<>>
  /\ seen = "0" /\ heap[Root].count = "1" /\ tmuts = 0 /\ umuts = 0 /\ calls = 0
  /\ nmut = 2 /\ lastMut = <<Root, "name">>
  /\ engine2.calls = 1 /\ engine2.seen = "y" /\ engine2.passes = 2

\* C27: a change-triggered rebuild cancels every listener the engine held
\* before it, those on pairs other than the one that changed and those on
\* pairs read again included: after it every open listener was opened by
\* that rebuild, one per pair of its pass, and the handles are those of
\* these listeners; in no state does the engine hold a listener of an
\* earlier pass, or a part only of one pass's listeners.
C27_FullRebuild ==
  /\ [](status = "active" =>
          (/\ \A s \in Range(listeners) : subs[s].gen = passes
           /\ ~threw => (Pairs(listeners) = Range(accesses)
                          /\ Len(listeners) = Len(accesses))
           /\ unsubs = listeners))
  /\ [][(status = "active" /\ passes' # passes) =>
           (/\ passes' = passes + 1
            /\ \A s \in Range(listeners') : subs'[s].gen = passes + 1
            /\ \A s \in Range(listeners) :
                  s \in Range(listeners') => subs'[s].gen # subs[s].gen
            /\ ~threw' => Len(listeners') = Len(trackAccesses(g, heap).acc))]_vars
\* The conditional getter read mode and a in both passes and a changed: the
\* listener on (state,mode), which did not change and is read again, is
\* one the rebuild opened.
C27_Witness ==
  /\ g = "cond" /\ Quiescent /\ passes = 2 /\ calls = 1 /\ fired = <<Root, "a">>
  /\ Pairs(listeners) = {<<Root, "mode">>, <<Root, "a">>}
  /\ \A s \in Range(listeners) : subs[s].gen = 2

\* C28: in one cycle the old listeners are cancelled, then the getter is
\* re-run under tracking, then the new listeners are opened, then the
\* callback is invoked: no listener of the engine is open while a tracking
\* pass runs, and when the callback runs the listeners of the pass just
\* made are open.
C28_StepOrder ==
  /\ [](trackOpen = 0)
  /\ [][calls' # calls =>
           (/\ passes' = passes + 1
            /\ trackOpen' = 0
            /\ accesses' = trackAccesses(g, heap).acc
            /\ cbOpen' = Range(accesses')
            /\ cbOpen' = Pairs(listeners)'
            /\ \A s \in Range(listeners') : subs'[s].gen = passes')]_vars
\* A rebuild that had two listeners to cancel and opened two others.
C28_Witness ==
  /\ g = "cond" /\ Quiescent /\ passes = 2 /\ calls = 1 /\ trackOpen = 0
  /\ fired = <<Root, "mode">> /\ heap[Root].mode = "b"
  /\ cbOpen = {<<Root, "mode">>, <<Root, "b">>}

\* C29: with a callback that assigns to the proxy, the rebuilds of the
\* engine still run one at a time: a step runs at most one rebuild and one
\* callback; the assignment made in the callback finds the listeners of
\* the enclosing rebuild all open and only queues their notifications, so
\* its own rebuild runs in a later step; and once nothing is queued the
\* listeners are those of the pairs the getter reads on the graph as it
\* is, all opened by the latest rebuild.
C29_SequentialRebuilds ==
  /\ [][passes' <= passes + 1 /\ calls' <= calls + 1]_vars
  /\ [](trackOpen = 0)
  /\ [][(calls' # calls /\ heap' # heap) =>
           (/\ passes' = passes + 1
            /\ accesses' = trackAccesses(g, heap).acc
            /\ Pairs(listeners)' = Range(accesses')
            /\ Len(listeners') = Len(accesses')
            /\ seen' = getSnapshot(g, heap).res
            /\ queue' # <<>>
            /\ Range(queue') \ Range(Tail(queue)) \subseteq Range(listeners'))]_vars
  /\ [](Quiescent =>
          (/\ accesses = trackAccesses(g, heap).acc
           /\ Pairs(listeners) = Range(accesses)
           /\ Len(listeners) = Len(accesses)
           /\ unsubs = listeners
           /\ \A s \in Range(listeners) : subs[s].gen = passes))
\* One assignment from outside, to a: its callback set mode to "b", which
\* caused a second rebuild and callback; the engine listens on mode and b.
C29_Witness ==
  /\ g = "cond" /\ Quiescent /\ nmut = 1 /\ calls = 2 /\ passes = 3
  /\ heap[Root].mode = "b" /\ heap[Root].a = "1" /\ fired = <<Root, "mode">>
  /\ Pairs(listeners) = {<<Root, "mode">>, <<Root, "b">>}

\* C30: in every state each open listener of the store is one whose handle
\* is in the engine's array, each handle standing for one listener; the
\* open listeners are never more than the pairs of the latest pass, however
\* many rebuilds have run.
C30_NoLeakedListener ==
  /\ Range(listeners) = Range(unsubs)
  /\ Len(listeners) = Len(unsubs)
  /\ Cardinality(Range(listeners)) = Len(listeners)
  /\ Len(listeners) <= Len(accesses)
\* Four rebuilds after the start, each replacing the set: two listeners.
C30_Witness ==
  /\ g = "userOpt" /\ Quiescent /\ passes = 5 /\ calls = 4
  /\ Len(listeners) = 2 /\ Len(accesses) = 2

\* C31: each handle the engine got from the store is invoked once: the
\* array never holds a handle twice nor one already invoked; a cleanup, in
\* a rebuild or in the teardown, invokes every handle the array holds and
\* leaves none of them in it, so a later cleanup cannot invoke it again;
\* the first call of the teardown handle invokes all that are held, one
\* per open listener, a repeated call none, and after it no listener the
\* engine opened is left uncancelled.
C31_HandlesInvokedOnce ==
  /\ [](/\ Cardinality(Range(unsubs)) = Len(unsubs)
        /\ Range(unsubs) \subseteq Range(listeners))
  /\ [](/\ cleanup(E).unsubs = <<>>
        /\ Range(cleanup(E).listeners) \cap Range(unsubs) = {})
  /\ [](status = "torndown" => (unsubs = <<>> /\ listeners = <<>>))
  /\ [][(status = "active" /\ (passes' # passes \/ status' = "torndown")) =>
           \A s \in Range(unsubs) :
              s \in Range(unsubs') => subs'[s].gen = subs[s].gen + 1]_vars
  /\ [][(status = "active" /\ status' = "torndown") =>
           (cancelled' = Len(listeners) /\ unsubs' = <<>> /\ listeners' = <<>>)]_vars
  /\ [][status = "torndown" => (cancelled' = cancelled \/ cancelled' = 0)]_vars
\* Torn down after a rebuild that replaced the two listeners of the
\* conditional getter, and the handle called once more.
C31_Witness ==
  /\ g = "cond" /\ status = "torndown" /\ cancelled = 0 /\ passes = 2 /\ calls = 1
  /\ Len(accesses) = 2 /\ queue = <<>> /\ fired = <<Root, "mode">>

\* The distinct pairs s.user.name + s.alt.name + s.user.name reads on h.
PathsPairs(h) ==
  {<<Root, "user">>, <<h[Root].user, "name">>, <<Root, "alt">>, <<h[Root].alt, "name">>}

\* C32: a pass records a pair once however often and through whatever path
\* the getter reads it, and a build opens one listener per recorded pair:
\* the handles held after a build are as many as the distinct pairs read,
\* three when user and alt hold the same object and four when they do not.
C32_OneListenerPerPair ==
  /\ (g = "paths" /\ status = "active") =>
        (/\ Len(trackAccesses(g, heap).acc) = Cardinality(PathsPairs(heap))
         /\ Range(trackAccesses(g, heap).acc) = PathsPairs(heap))
  /\ (g = "paths" /\ Quiescent) =>
        (/\ Pairs(listeners) = PathsPairs(heap)
         /\ Len(unsubs) = Cardinality(PathsPairs(heap))
         /\ Len(listeners) = Cardinality(PathsPairs(heap)))
  /\ (status = "active" /\ ~threw) =>
        (/\ Len(unsubs) = Cardinality(Range(accesses))
         /\ Len(unsubs) = Cardinality(Pairs(listeners))
         /\ \A i, j \in 1..Len(listeners) :
               PairOf(listeners[i]) = PairOf(listeners[j]) => i = j)

\* alt was made to hold the object user holds, and the rebuild ran: three
\* listeners, for six reads.
C32_Witness ==
  /\ g = "paths" /\ Quiescent /\ calls = 1 /\ fired = <<Root, "alt">>
  /\ heap[Root].user = "U1" /\ heap[Root].alt = "U1"
  /\ Len(unsubs) = 3 /\ seen = "AAA"
  /\ Pairs(listeners) = {<<Root, "user">>, <<"U1", "name">>, <<Root, "alt">>}

\* C33: once subscribeTracked has returned or thrown, isTracking.current is
\* false in every state: after the initial pass and after every rebuild,
\* whether the getter returned or threw, so in every state in which
\* nothing is queued; no step leaves it true.
C33_TrackingFlag ==
  /\ [](status # "idle" => ~isTracking)
  /\ [](Quiescent => ~isTracking)
  /\ [][passes' # passes => ~isTracking']_vars

\* The getter s.user.name threw in a rebuild, user having been set to null.
C33_Witness ==
  /\ g = "userStrict" /\ status = "active" /\ threw /\ nthrows = 1 /\ passes = 2
  /\ heap[Root].user = Null /\ ~isTracking /\ queue = <<>>

\* C34 as stated: every read on the kept wrapper made after its pass has
\* concluded records nothing (the Map of that pass stays as the pass left
\* it) and returns the raw value, and the access set of every pass holds
\* the pair the getter reads through the wrapper of that pass only.
C34_ConcludedWrapperInert ==
  (g = "kept" /\ kept.has) =>
     (/\ kept.acc = <<<<Root, "count">>>>
      /\ kept.inPass.w = 0
      /\ kept.outside.w = 0
      /\ status = "active" => accesses = <<<<Root, "count">>>>)

\* C34, amended: each pass records into a Map of its own, which holds the
\* pair read through the wrapper of that pass and nothing read through the
\* kept wrapper, and the listeners are on that pair alone.  A read on the
\* kept wrapper made outside a pass records nothing and returns the raw
\* value; one made while a later pass runs finds isTracking.current true:
\* it is recorded in the Map of the concluded pass and returns a wrapper
\* when the value is an object.
C34_FreshAccessSet ==
  /\ []((g = "kept" /\ status = "active") =>
          (/\ accesses = <<<<Root, "count">>>>
           /\ Pairs(listeners) = {<<Root, "count">>}))
  /\ []((g = "kept" /\ kept.has) =>
          (/\ kept.outside.w = 0
           /\ passes = 1 => (kept.acc = <<<<Root, "count">>>> /\ kept.inPass = Raw(Undefined))
           /\ passes >= 2 => Range(kept.acc) = {<<Root, "count">>, <<Root, "user">>}))
  /\ [][(g = "kept" /\ passes' # passes) =>
           (/\ kept'.outside = Raw(heap[Root].user)
            /\ passes >= 1 =>
                  (/\ kept'.inPass.v = heap[Root].user
                   /\ kept'.inPass.w # 0 <=> heap[Root].user \in Objects))]_vars
  /\ [][(g = "kept" /\ passes' = passes) => kept' = kept]_vars

\* A rebuild ran while user held an object: the read through the kept
\* wrapper in the pass returned a wrapper and is in the first pass's Map,
\* the read in the callback returned the object itself, and the pass
\* recorded count alone.
C34_Witness ==
  /\ g = "kept" /\ Quiescent /\ passes = 2 /\ calls = 1
  /\ heap[Root].user = "U1"
  /\ kept.inPass.v = "U1" /\ kept.inPass.w # 0
  /\ kept.outside = Raw("U1")
  /\ Range(kept.acc) = {<<Root, "count">>, <<Root, "user">>}
  /\ accesses = <<<<Root, "count">>>>

\* C35: reading the current value on the live proxy leaves the engine as
\* it is: a step in which the consumer's value changes without a callback
\* changes neither the access map, the handles, the flag, the listeners,
\* the queued notifications nor the count of callbacks and passes; and the
\* engine's fields change in no step other than a start, a rebuild or a
\* teardown.
C35_ReadIsPure ==
  /\ [][(status = "active" /\ status' = "active" /\ calls' = calls /\ seen' # seen) =>
           (/\ seen' = getSnapshot(g, heap).res
            /\ UNCHANGED <<accesses, unsubs, isTracking, listeners, subs, queue, calls,
                           passes, threw, cbOpen, trackOpen, heap>>)]_vars
  /\ [][(passes' = passes /\ status' = status) =>
           UNCHANGED <<accesses, unsubs, isTracking, listeners, calls, threw>>]_vars

\* count was assigned after the start and read before the notification was
\* delivered: the consumer holds the new value, the engine has not moved.
C35_Witness ==
  /\ g = "count" /\ status = "active" /\ nmut = 1 /\ tmuts = 1 /\ calls = 0 /\ passes = 1
  /\ heap[Root].count = "1" /\ seen = "1" /\ queue # <<>>
  /\ accesses = <<<<Root, "count">>>> /\ Len(listeners) = 1 /\ ~isTracking

\* C36: the delivery of a change of a tracked pair invokes the callback
\* whenever the rebuild's getter returns, whatever it returns: also when
\* the value the getter gives on the graph is the one the consumer already
\* holds, as when user is replaced by an object with the same name.
C36_NoResultDiffing ==
  /\ [][(/\ status = "active" /\ DeliverStep
          /\ Head(queue) \in Range(listeners)
          /\ subs[Head(queue)].prev # Get(heap, subs[Head(queue)].obj, subs[Head(queue)].key)
          /\ ~trackAccesses(g, heap).threw)
         => (/\ calls' = calls + 1
             /\ seen' = getSnapshot(g, heap).res)]_vars
  /\ [][(status = "active" /\ passes' # passes /\ ~threw' /\ getSnapshot(g, heap).res = seen)
         => (calls' = calls + 1 /\ seen' = seen)]_vars

\* user was replaced by the other object, whose name is the same: one
\* callback, and the consumer's value is what it was.
C36_Witness ==
  /\ g = "userOpt" /\ Quiescent /\ nmut = 1 /\ calls = 1 /\ fired = <<Root, "user">>
  /\ heap[Root].user = "U2" /\ heap["U1"].name = "A" /\ heap["U2"].name = "A"
  /\ seen = "A"

\* C37: the read of the getter property computed through the tracking
\* Proxy records the pair (state,computed) and nothing else, and returns the
\* getter's value; the field value the getter reads is in no access map and
\* has no listener: at every moment the engine holds at most one listener,
\* on (state,computed).
C37_GetterReadsNotTracked ==
  /\ [](g = "computed" =>
          LET r == createTracker(TRUE, <<>>, heap, Root, "computed", 1) IN
            r.acc = <<<<Root, "computed">>>> /\ r.val = Raw(Twice(heap[Root].value)))
  /\ []((g = "computed" /\ status # "idle") => accesses = <<<<Root, "computed">>>>)
  /\ [](g = "computed" =>
          (/\ Len(unsubs) <= 1 /\ Len(listeners) <= 1
           /\ \A s \in Range(listeners) : subs[s].obj = Root /\ subs[s].key = "computed"))
\* The field value was assigned once and the callback ran: the listener is
\* still the one on (state,computed), and the access map holds that pair.
C37_Witness ==
  /\ g = "computed" /\ status = "active" /\ Quiescent /\ nmut = 1 /\ calls = 1
  /\ lastMut = <<Root, "value">> /\ accesses = <<<<Root, "computed">>>>
  /\ Pairs(listeners) = {<<Root, "computed">>} /\ <<Root, "value">> \notin Pairs(listeners)

\* C38: a change-triggered rebuild in which the getter throws invokes no
\* callback: the step leaves the number of callbacks, the value the
\* consumer holds and the value it rendered as they were.
C38_ThrowSkipsCallback ==
  [][(status = "active" /\ passes' # passes /\ threw') =>
        (/\ DeliverStep /\ nthrows' = nthrows + 1
         /\ calls' = calls /\ seen' = seen /\ rendered' = rendered
         /\ called' = called)]_vars
\* With the getter s.user.name, user was set to null: the rebuild threw and
\* the consumer, never called, still holds the name read at the start.
C38_Witness ==
  /\ g = "userStrict" /\ status = "active" /\ queue = <<>> /\ threw /\ passes = 2
  /\ nmut = 1 /\ nthrows = 1 /\ calls = 0 /\ ~called /\ heap[Root].user = Null
  /\ fired = <<Root, "user">> /\ seen = "A"

====
